---- MODULE Spec2Model ----
(***************************************************************************)
(* Model of the character-consistent illustration regeneration batch of    *)
(* regenerate_consistent.py: one invocation of main() against an output    *)
(* directory, a backup directory and the story document on disk.           *)
(***************************************************************************)
EXTENDS Integers, Sequences, FiniteSets, TLC

\* ------------------------------------------------------------------------
\* Bounds of the model
\* ------------------------------------------------------------------------

\* longest explicit --pages list
MaxLen == 2

\* provider / download / write failures the environment injects in one run
MaxFail == 1

\* runs of main() one after the other on the same output directory
MaxRuns == 2

\* ------------------------------------------------------------------------
\* Configuration (module-level constants of regenerate_consistent.py)
\* ------------------------------------------------------------------------

\* the storybook has 12 pages
StoryLength == 12

Exts == <<"png", "jpg">>

\* f"page_{page_num:02d}.{ext}": the two decimal digits and the extension
PageFile(page_num, ext) == <<page_num \div 10, page_num % 10, ext>>

\* page numbers an operator can name: the story's pages and one beyond them
Pages == 1..(StoryLength + 1)

Names == {PageFile(p, Exts[k]) : p \in Pages, k \in 1..2}

REF_OUTDOOR == PageFile(5, "png")

REF_HOME == PageFile(12, "png")

\* the reference set had page 12 been left out of it
REFERENCE_PAGES_one == {5}

REFERENCE_PAGES == {5, 12}

HOME_PAGES == {1, 2}

CatalogPages == {1, 2, 3, 4, 6, 7, 8, 9, 10, 11}

\* the hand-written prompt of a page: one distinct text per catalog page
PROMPTS == [p \in CatalogPages |-> <<"consistent", p>>]

NoPrompt == <<"none", 0>>

DefaultPages == <<3, 6, 7, 8, 9>>

FLUX_MODEL_PRO == "flux-kontext-pro"

FLUX_MODEL_FAST == "flux-kontext-fast"

\* ------------------------------------------------------------------------
\* Files
\* ------------------------------------------------------------------------

NoFile == [page |-> 0, ver |-> 0, fmt |-> "none"]

\* the illustration a page had before this run
Original(p, ext) == [page |-> p, ver |-> 0, fmt |-> ext]

\* the bytes downloaded for the n-th provider call, written as page_NN.png
Generated(p, n) == [page |-> p, ver |-> n, fmt |-> "png"]

\* Image.open(png).save(jpg, "JPEG", quality=85): the same picture re-encoded
DeriveJpg(png) == [png EXCEPT !.fmt = "jpg"]

\* a backup left behind by an earlier session
OlderBackup(p, ext) == [page |-> p, ver |-> -1, fmt |-> ext]

Exists(files, name) == files[name] # NoFile

\* ------------------------------------------------------------------------
\* Story document
\* ------------------------------------------------------------------------

OriginalPrompt(p) == <<"original", p>>

StoryPage(p) ==
    [page_number |-> p, text |-> <<"text", p>>,
     illustration_prompt |-> OriginalPrompt(p)]

StoryOfLength(n) ==
    [title |-> "title", theme |-> "theme", pages |-> [i \in 1..n |-> StoryPage(i)]]

EmptyStory == [title |-> "", theme |-> "", pages |-> <<>>]

\* lengths of the stories that may be on disk
DocLens == {2, StoryLength}

StoryFiles ==
    {[status |-> "missing", doc |-> EmptyStory],
     [status |-> "malformed", doc |-> EmptyStory]}
    \cup {[status |-> "ok", doc |-> StoryOfLength(n)] : n \in DocLens}

\* ------------------------------------------------------------------------
\* State
\* ------------------------------------------------------------------------

VARIABLES
    artifact,       \* OUTPUT_DIR: file name -> content (NoFile when absent)
    backupDir,      \* whether OUTPUT_DIR/pre_consistency_backup exists
    backup,         \* the backup directory: file name -> content
    storyFile,      \* STORY_JSON on disk
    token,          \* REPLICATE_API_TOKEN in the environment ("" when unset)
    use_fast,       \* "--fast" in sys.argv
    photo,          \* "--photo <path>" of regenerate_pages.py and the file it names
    mode,           \* which of --pages / --all / neither was given
    requested,      \* pages_to_fix as parsed, before the reference filter
    pages_to_fix,   \* pages_to_fix after the reference filter
    idx,            \* position of the generation loop in pages_to_fix
    successes,
    failures,
    pc,             \* position of main()
    exitReason,     \* why main() stopped
    log,            \* what the run printed and called, in order
    disk0,          \* the disk as it was when the run started
    firstBackup,    \* the backup directory after a first backup call
    runs,           \* how many times main() has been started
    priorCalls,     \* provider calls made by the earlier runs
    storybook,      \* the pages of the Storybook given to generate_all_illustrations
    storybook0,     \* the same pages as they were when it was called
    pages_to_illustrate,  \* its argument of that name
    output,         \* what replicate.run returned
    image_url,      \* the address taken from it
    procs,          \* two runs at once: where each run is and what it holds
    overlapped      \* whether the two runs have been under way at the same time

diskVars == <<artifact, backupDir, backup, storyFile>>

envVars == <<token, use_fast, photo>>

runVars == <<mode, requested, pages_to_fix, idx, successes, failures>>

sessionVars == <<runs, priorCalls>>

pipelineVars == <<storybook, storybook0, pages_to_illustrate>>

callVars == <<output, image_url>>

concVars == <<procs, overlapped>>

vars == <<artifact, backupDir, backup, storyFile, token, use_fast, photo, mode,
          requested, pages_to_fix, idx, successes, failures, pc, exitReason,
          log, disk0, firstBackup, runs, priorCalls, storybook, storybook0,
          pages_to_illustrate, output, image_url, procs, overlapped>>

\* ------------------------------------------------------------------------
\* Helpers
\* ------------------------------------------------------------------------

Range(s) == {s[i] : i \in 1..Len(s)}

Min(S) == CHOOSE x \in S : \A y \in S : x <= y

RECURSIVE SortedSeq(_)
\* sorted(S)
SortedSeq(S) == IF S = {} THEN <<>> ELSE <<Min(S)>> \o SortedSeq(S \ {Min(S)})

RECURSIVE Reversed(_)
Reversed(s) == IF s = <<>> THEN <<>> ELSE Reversed(Tail(s)) \o <<Head(s)>>

RECURSIVE SelectIn(_, _)
\* [x for x in s if x in S]
SelectIn(s, S) ==
    IF s = <<>> THEN <<>>
    ELSE (IF Head(s) \in S THEN <<Head(s)>> ELSE <<>>) \o SelectIn(Tail(s), S)

NoRef == <<0, 0, "none">>

\* regenerate_consistent.py takes no --photo argument
NoPhoto == "none"

\* the result of replicate.run is looked at only where the call is taken apart
NoResult == [shape |-> "none", url |-> "", str |-> "", items |-> <<>>]

NoCall ==
    /\ output = NoResult
    /\ image_url = ""

\* one run of one program: no second run beside it
NoProcs ==
    /\ procs = <<>>
    /\ overlapped = FALSE

\* the regeneration scripts work on files and hold no Storybook object
NoPipeline ==
    /\ storybook = <<>>
    /\ storybook0 = <<>>
    /\ pages_to_illustrate = [given |-> FALSE, pages |-> <<>>]
    /\ NoCall

Event(ev, p, prompt, ref, info) ==
    [ev |-> ev, page |-> p, prompt |-> prompt, ref |-> ref, info |-> info]

\* the pages of the events of one kind, in the order they happened
RECURSIVE PagesOf(_, _)
PagesOf(l, evs) ==
    IF l = <<>> THEN <<>>
    ELSE (IF Head(l).ev \in evs THEN <<Head(l).page>> ELSE <<>>) \o PagesOf(Tail(l), evs)

\* ------------------------------------------------------------------------
\* main(): page selection
\* ------------------------------------------------------------------------

\* page selection with --all sorted the wrong way round
ParsePagesReversed(m, arg) ==
    CASE m = "pages" -> arg
      [] m = "all" -> Reversed(SortedSeq(DOMAIN PROMPTS))
      [] OTHER -> DefaultPages

\* lines 309-320: --pages a,b,c / --all / the default subset
ParsePages(m, arg) ==
    CASE m = "pages" -> arg
      [] m = "all" -> SortedSeq(DOMAIN PROMPTS)
      [] OTHER -> DefaultPages

\* the "WARNING: Skipping page" lines
ReferenceWarnings(ps) ==
    LET skipped == SelectIn(ps, REFERENCE_PAGES)
    IN  [i \in 1..Len(skipped) |-> Event("warn", skipped[i], NoPrompt, NoRef, "reference")]

\* [p for p in pages_to_fix if p not in REFERENCE_PAGES]
FilterReference(ps) == SelectIn(ps, Pages \ REFERENCE_PAGES)

\* ------------------------------------------------------------------------
\* main(): preconditions
\* ------------------------------------------------------------------------

RequiredReferences == <<REF_OUTDOOR, REF_HOME>>

\* the checks without the credential check
EnvCheckNoToken(tok, files) ==
    IF \E k \in 1..Len(RequiredReferences) : ~Exists(files, RequiredReferences[k])
    THEN "no_ref"
    ELSE "ok"

\* the token check, then the reference check: "ok" or the reason of sys.exit(1)
EnvCheck(tok, files) ==
    IF tok = "" THEN "no_token"
    ELSE IF \E k \in 1..Len(RequiredReferences) : ~Exists(files, RequiredReferences[k])
         THEN "no_ref"
         ELSE "ok"

\* ------------------------------------------------------------------------
\* backup_originals
\* ------------------------------------------------------------------------

\* backup_dir.mkdir() without exist_ok
MkdirStrict(exists) == IF exists THEN "FileExistsError" ELSE "ok"

\* backup_dir.mkdir(exist_ok=True)
Mkdir(exists) == "ok"

\* the copy without the "if not dst.exists()" guard
BackupOneOverwrite(files, bk, name) ==
    IF Exists(files, name) THEN [bk EXCEPT ![name] = files[name]] ELSE bk

\* one (page, ext) step of the loop: copy src to dst unless dst exists
BackupOne(files, bk, name) ==
    IF Exists(files, name) /\ ~Exists(bk, name)
    THEN [bk EXCEPT ![name] = files[name]]
    ELSE bk

\* shutil.copy2(src, dst) is reached for this name and is the copy that raises
CopyRaises(files, bk, name, bad) ==
    name = bad /\ Exists(files, name) /\ ~Exists(bk, name)

RECURSIVE BackupLoopPngOnly(_, _, _, _)
\* the loop over ["png"] alone
BackupLoopPngOnly(ps, files, bk, bad) ==
    IF ps = <<>> THEN [raised |-> "none", files |-> bk]
    ELSE LET png == PageFile(Head(ps), Exts[1])
         IN  IF CopyRaises(files, bk, png, bad)
             THEN [raised |-> "OSError", files |-> bk]
             ELSE BackupLoopPngOnly(Tail(ps), files, BackupOne(files, bk, png), bad)

RECURSIVE BackupLoop(_, _, _, _)
\* for page_num in pages: for ext in ["png", "jpg"]: ...
\* bad names the file whose copy raises OSError (NoRef: no copy raises)
BackupLoop(ps, files, bk, bad) ==
    IF ps = <<>> THEN [raised |-> "none", files |-> bk]
    ELSE LET png == PageFile(Head(ps), Exts[1])
             jpg == PageFile(Head(ps), Exts[2])
             afterPng == BackupOne(files, bk, png)
             afterJpg == BackupOne(files, afterPng, jpg)
         IN  IF CopyRaises(files, bk, png, bad)
             THEN [raised |-> "OSError", files |-> bk]
             ELSE IF CopyRaises(files, afterPng, jpg, bad)
                  THEN [raised |-> "OSError", files |-> afterPng]
                  ELSE BackupLoop(Tail(ps), files, afterJpg, bad)

\* backup_originals(pages): what it leaves of the backup directory, and the
\* exception it raised, if any
BackupOriginals(ps, files, dirExists, bk, bad) ==
    LET r == Mkdir(dirExists)
        l == BackupLoop(ps, files, bk, bad)
    IN  IF r = "ok"
        THEN [raised |-> l.raised, dir |-> TRUE, files |-> l.files]
        ELSE [raised |-> r, dir |-> dirExists, files |-> bk]

\* ------------------------------------------------------------------------
\* update_story_json
\* ------------------------------------------------------------------------

\* update_story_json without the json.dump
UpdateStoryJsonNoSave(story, pages_to_update) == story

\* update_story_json that inserts the catalog pages the story lacks
UpdateStoryJsonUpsert(story, pages_to_update) ==
    LET present == {story.pages[i].page_number : i \in 1..Len(story.pages)}
        missing == SortedSeq(DOMAIN PROMPTS \ present)
    IN  [story EXCEPT !.pages =
            [i \in 1..Len(story.pages) |->
                IF story.pages[i].page_number \in DOMAIN PROMPTS
                THEN [story.pages[i] EXCEPT
                        !.illustration_prompt = PROMPTS[story.pages[i].page_number]]
                ELSE story.pages[i]]
            \o [k \in 1..Len(missing) |->
                    [page_number |-> missing[k], text |-> <<"text", missing[k]>>,
                     illustration_prompt |-> PROMPTS[missing[k]]]]]

\* every page of the story whose number is in PROMPTS gets the catalog
\* prompt; pages_to_update is not consulted
UpdateStoryJson(story, pages_to_update) ==
    [story EXCEPT !.pages =
        [i \in 1..Len(story.pages) |->
            IF story.pages[i].page_number \in DOMAIN PROMPTS
            THEN [story.pages[i] EXCEPT
                    !.illustration_prompt = PROMPTS[story.pages[i].page_number]]
            ELSE story.pages[i]]]

\* ------------------------------------------------------------------------
\* regenerate_page
\* ------------------------------------------------------------------------

\* the reference chosen with the two roles exchanged
RefForSwapped(page_num) == IF page_num \in HOME_PAGES THEN REF_OUTDOOR ELSE REF_HOME

\* lines 210-215: the home reference for HOME_PAGES, the outdoor one otherwise
RefFor(page_num) == IF page_num \in HOME_PAGES THEN REF_HOME ELSE REF_OUTDOOR

ModelFor(fast) == IF fast THEN FLUX_MODEL_FAST ELSE FLUX_MODEL_PRO

\* how one call of regenerate_page may end: replicate.run raises, the
\* download raises, open(png_path, "wb") raises, the JPG derivation raises
\* after the PNG is written, or everything succeeds
Outcomes == {"ok", "provider_error", "download_error", "png_write_error", "jpg_error"}

\* png_path opened for writing before the download is checked
WriteArtifactsEarly(files, page_num, n, outcome) ==
    CASE outcome = "ok" ->
            [files EXCEPT ![PageFile(page_num, "png")] = Generated(page_num, n),
                          ![PageFile(page_num, "jpg")] = DeriveJpg(Generated(page_num, n))]
      [] outcome \in {"jpg_error", "download_error"} ->
            [files EXCEPT ![PageFile(page_num, "png")] = Generated(page_num, n)]
      [] OTHER -> files

\* the PNG opened at ref_image instead of png_path
WriteArtifactsToRef(files, page_num, n, outcome) ==
    CASE outcome = "ok" ->
            [files EXCEPT ![RefFor(page_num)] = Generated(page_num, n),
                          ![PageFile(page_num, "jpg")] = DeriveJpg(Generated(page_num, n))]
      [] outcome = "jpg_error" ->
            [files EXCEPT ![RefFor(page_num)] = Generated(page_num, n)]
      [] OTHER -> files

\* OUTPUT_DIR after regenerate_page(page_num) ended with the given outcome;
\* n numbers the downloaded image
WriteArtifacts(files, page_num, n, outcome) ==
    CASE outcome = "ok" ->
            [files EXCEPT ![PageFile(page_num, "png")] = Generated(page_num, n),
                          ![PageFile(page_num, "jpg")] = DeriveJpg(Generated(page_num, n))]
      [] outcome = "jpg_error" ->
            [files EXCEPT ![PageFile(page_num, "png")] = Generated(page_num, n)]
      [] OTHER -> files

\* a loop that passes over the entry after a page that raised
NextIndexSkip(i, failed, n) == IF failed THEN i + 2 ELSE i + 1

\* a loop that stops at the first page that raised
NextIndexAbort(i, failed, n) == IF failed THEN n + 1 ELSE i + 1

\* the for loop goes on to the next page whether or not the body raised
NextIndex(i, failed, n) == i + 1

\* ------------------------------------------------------------------------
\* Initial states: the disk and the environment when main() starts
\* ------------------------------------------------------------------------

PageOfName(name) == name[1] * 10 + name[2]

\* illustration files that may be absent when the run starts
AbsentCandidates == {REF_OUTDOOR, REF_HOME, PageFile(3, "png"), PageFile(3, "jpg")}

\* a 12-page storybook was illustrated before; some of its files may be gone
InitialArtifacts(absent) ==
    [name \in Names |->
        IF PageOfName(name) <= StoryLength /\ name \notin absent
        THEN Original(PageOfName(name), name[3])
        ELSE NoFile]

NoFiles == [name \in Names |-> NoFile]

\* the backup directory of an earlier session, if there was one
InitialBackups ==
    {[dir |-> FALSE, files |-> NoFiles],
     [dir |-> TRUE, files |-> NoFiles],
     [dir |-> TRUE,
      files |-> [name \in Names |->
                    IF PageOfName(name) = 3 THEN OlderBackup(3, name[3]) ELSE NoFile]]}

Tokens == {"", "r8_token"}

InitRun ==
    /\ mode = "unset"
    /\ requested = <<>>
    /\ pages_to_fix = <<>>
    /\ idx = 0
    /\ successes = <<>>
    /\ failures = <<>>
    /\ exitReason = "running"
    /\ log = <<>>

Init ==
    /\ \E absent \in SUBSET AbsentCandidates : artifact = InitialArtifacts(absent)
    /\ \E b \in InitialBackups : backupDir = b.dir /\ backup = b.files
    /\ storyFile \in StoryFiles
    /\ token \in Tokens
    /\ use_fast \in BOOLEAN
    /\ pc = "start"
    /\ InitRun
    /\ disk0 = [artifact |-> artifact, backupDir |-> backupDir,
                backup |-> backup, storyFile |-> storyFile]
    /\ firstBackup = [taken |-> FALSE, dir |-> backupDir, files |-> backup]
    /\ runs = 1
    /\ priorCalls = 0
    /\ NoProcs
    /\ photo = NoPhoto
    /\ NoPipeline

\* ------------------------------------------------------------------------
\* main()
\* ------------------------------------------------------------------------

\* pages an operator may name in --pages
ReqPages == {1, 3, 5, 12, StoryLength + 1}

\* "3,6,7".split(",") never yields an empty list
PageLists == UNION {[1..n -> ReqPages] : n \in 1..MaxLen}

Modes == {"pages", "all", "default"}

\* lines 307-330: parse the arguments, warn about and drop reference pages
SelectPagesFrom(ms, lists) ==
    /\ pc = "start"
    /\ \E m \in ms, arg \in lists :
          /\ (m # "pages" => arg = <<1>>)
          /\ mode' = m
          /\ requested' = ParsePages(m, arg)
    /\ log' = log \o ReferenceWarnings(requested')
    /\ pages_to_fix' = FilterReference(requested')
    /\ IF pages_to_fix' = <<>>
       THEN pc' = "exited" /\ exitReason' = "no_pages"
       ELSE pc' = "check_env" /\ exitReason' = exitReason
    /\ UNCHANGED <<diskVars, envVars, idx, successes, failures, disk0, firstBackup, sessionVars, pipelineVars, callVars, concVars>>

SelectPages == SelectPagesFrom(Modes, PageLists)

\* lines 332-343: the credential and the reference images
CheckEnvironment ==
    /\ pc = "check_env"
    /\ LET r == EnvCheck(token, artifact)
       IN  IF r = "ok"
           THEN pc' = "backup" /\ exitReason' = exitReason
           ELSE pc' = "exited" /\ exitReason' = r
    /\ UNCHANGED <<diskVars, envVars, runVars, log, disk0, firstBackup, sessionVars, pipelineVars, callVars, concVars>>

\* the copies backup_originals(ps) has to make
CopiesDue(ps, files, bk) ==
    {name \in Names :
        PageOfName(name) \in Range(ps) /\ Exists(files, name) /\ ~Exists(bk, name)}

\* lines 355-356: backup_originals(pages_to_fix); it is called outside the
\* try of the loop, so an OSError of a copy raises out of main()
BackupStep ==
    /\ pc = "backup"
    /\ \E bad \in {NoRef} \cup CopiesDue(pages_to_fix, artifact, backup) :
          LET r == BackupOriginals(pages_to_fix, artifact, backupDir, backup, bad)
          IN  /\ backupDir' = r.dir
              /\ backup' = r.files
              /\ IF r.raised = "none"
                 THEN pc' = "update" /\ exitReason' = exitReason /\ log' = log
                 ELSE /\ pc' = "crashed"
                      /\ exitReason' = r.raised
                      /\ log' = Append(log, Event("backup_error", PageOfName(bad),
                                                  NoPrompt, NoRef, r.raised))
    /\ UNCHANGED <<artifact, storyFile, envVars, runVars, disk0, firstBackup, sessionVars, pipelineVars, callVars, concVars>>

\* lines 358-359: update_story_json(pages_to_fix); an unreadable story
\* document raises out of main()
UpdateStep ==
    /\ pc = "update"
    /\ IF storyFile.status = "ok"
       THEN /\ storyFile' = [storyFile EXCEPT
                                !.doc = UpdateStoryJson(storyFile.doc, pages_to_fix)]
            /\ pc' = "loop"
            /\ idx' = 1
            /\ exitReason' = exitReason
       ELSE /\ UNCHANGED <<storyFile, idx>>
            /\ pc' = "crashed"
            /\ exitReason' = IF storyFile.status = "missing"
                             THEN "FileNotFoundError" ELSE "MalformedDocument"
    /\ UNCHANGED <<artifact, backupDir, backup, envVars, mode, requested,
                   pages_to_fix, successes, failures, log, disk0, firstBackup, sessionVars, pipelineVars, callVars, concVars>>

InjectedFailures(l) ==
    Cardinality({i \in 1..Len(l) : l[i].ev = "fail" /\ l[i].info \in Outcomes})

CallsMade(l) == Len(PagesOf(l, {"call"}))

Sleep == Event("sleep", 0, NoPrompt, NoRef, "2s")

\* a loop body whose except branch ends in "continue"
PacingAfterSuccess(failed) == IF failed THEN <<>> ELSE <<Sleep>>

\* lines 373-374: time.sleep(2) follows the try/except, whatever it did
Pacing(failed) == <<Sleep>>

\* lines 365-374: one iteration of the generation loop
RegenerateStep ==
    /\ pc = "loop"
    /\ idx <= Len(pages_to_fix)
    /\ LET page_num == pages_to_fix[idx] IN
       \/ \* PROMPTS[page_num] raises KeyError before regenerate_page is entered
          /\ page_num \notin DOMAIN PROMPTS
          /\ log' = log \o <<Event("fail", page_num, NoPrompt, NoRef, "KeyError")>>
                       \o Pacing(TRUE)
          /\ failures' = Append(failures, page_num)
          /\ idx' = NextIndex(idx, TRUE, Len(pages_to_fix))
          /\ UNCHANGED <<artifact, successes>>
       \/ \* encode_image_to_data_uri cannot open the reference image
          /\ page_num \in DOMAIN PROMPTS
          /\ ~Exists(artifact, RefFor(page_num))
          /\ log' = log \o <<Event("fail", page_num, NoPrompt, RefFor(page_num),
                                   "FileNotFoundError")>>
                       \o Pacing(TRUE)
          /\ failures' = Append(failures, page_num)
          /\ idx' = NextIndex(idx, TRUE, Len(pages_to_fix))
          /\ UNCHANGED <<artifact, successes>>
       \/ \* replicate.run, the download and the two writes
          /\ page_num \in DOMAIN PROMPTS
          /\ Exists(artifact, RefFor(page_num))
          /\ \E outcome \in Outcomes :
                /\ outcome # "ok" => InjectedFailures(log) < MaxFail
                /\ artifact' = WriteArtifacts(artifact, page_num,
                                              priorCalls + CallsMade(log) + 1, outcome)
                /\ log' = log \o
                     <<Event("call", page_num, PROMPTS[page_num], RefFor(page_num),
                             ModelFor(use_fast)),
                       Event(IF outcome = "ok" THEN "ok" ELSE "fail", page_num,
                             NoPrompt, NoRef, outcome)>>
                     \o Pacing(outcome # "ok")
                /\ IF outcome = "ok"
                   THEN successes' = Append(successes, page_num) /\ UNCHANGED failures
                   ELSE failures' = Append(failures, page_num) /\ UNCHANGED successes
                /\ idx' = NextIndex(idx, outcome # "ok", Len(pages_to_fix))
    /\ UNCHANGED <<backupDir, backup, storyFile, envVars, mode, requested,
                   pages_to_fix, pc, exitReason, disk0, firstBackup, sessionVars, pipelineVars, callVars, concVars>>

\* lines 376-385: the summary
Summary ==
    /\ pc = "loop"
    /\ idx > Len(pages_to_fix)
    /\ pc' = "done"
    /\ exitReason' = "summary"
    /\ UNCHANGED <<diskVars, envVars, runVars, log, disk0, firstBackup, sessionVars, pipelineVars, callVars, concVars>>

Next ==
    \/ SelectPages
    \/ CheckEnvironment
    \/ BackupStep
    \/ UpdateStep
    \/ RegenerateStep
    \/ Summary

Spec == Init /\ [][Next]_vars

\* ------------------------------------------------------------------------
\* Properties of one run
\* ------------------------------------------------------------------------

Events(evs) == {i \in 1..Len(log) : log[i].ev \in evs}

DiskUntouched ==
    /\ artifact = disk0.artifact
    /\ backupDir = disk0.backupDir
    /\ backup = disk0.backup
    /\ storyFile = disk0.storyFile

\* C1: a requested page of the reference-page set {5, 12} never gets a
\* generation call, and the run prints one warning for each time it was
\* requested, whatever else is in the batch.
C1_ReferencePagesSkipped ==
    /\ \A i \in Events({"call"}) : log[i].page \notin {5, 12}
    /\ pc # "start" => PagesOf(log, {"warn"}) = SelectIn(requested, {5, 12})

\* C1 witness: a reference page was requested together with a regenerable
\* page; the run warned, generated the regenerable page and finished.
C1_Witness ==
    /\ pc = "done"
    /\ Range(requested) \cap {5, 12} # {}
    /\ Events({"warn"}) # {}
    /\ Events({"call"}) # {}

\* C2 as stated: at the summary the succeeded and failed lists are disjoint
\* and together hold exactly the allowed pages.
C2_Original ==
    pc = "done" =>
        /\ Range(successes) \cap Range(failures) = {}
        /\ Range(successes) \cup Range(failures) = Range(pages_to_fix)

\* C3: a failure while processing a page is recorded for that page and the
\* loop goes on: the pages attempted so far are the leading entries of the
\* allowed list, the failed ones are exactly the failures list, and at the
\* summary every allowed entry has been attempted.
C3_FailuresIsolated ==
    pc \in {"loop", "done"} =>
        LET attempted == PagesOf(log, {"ok", "fail"})
        IN  /\ Len(attempted) <= Len(pages_to_fix)
            /\ attempted = SubSeq(pages_to_fix, 1, Len(attempted))
            /\ PagesOf(log, {"fail"}) = failures
            /\ PagesOf(log, {"ok"}) = successes
            /\ pc = "done" => attempted = pages_to_fix

\* C3 witness: the run reached its summary after a provider failure on one
\* page was followed by a successful generation of a later page.
C3_Witness ==
    /\ pc = "done"
    /\ \E i \in Events({"fail"}), j \in Events({"ok"}) :
          i < j /\ log[i].info = "provider_error"

\* C4: when the credential is missing, a reference image is missing or no
\* allowed page is left, the run never gets past its checks: the disk is as
\* it was at the start and no generation call has been made.
C4_PreconditionsBeforeEffects ==
    (/\ pc # "start"
     /\ \/ pages_to_fix = <<>>
        \/ token = ""
        \/ ~Exists(disk0.artifact, REF_OUTDOOR)
        \/ ~Exists(disk0.artifact, REF_HOME))
    => /\ pc \in {"check_env", "exited"}
       /\ DiskUntouched
       /\ Events({"call"}) = {}

\* C4 witness: a run with allowed pages and both reference images stopped
\* for the missing credential, although illustrations to back up existed.
C4_Witness ==
    /\ pc = "exited"
    /\ exitReason = "no_token"
    /\ \E k \in 1..Len(pages_to_fix) : Exists(artifact, PageFile(pages_to_fix[k], "png"))

\* C5 as stated: when the story document is missing or malformed the run
\* aborts with nothing on disk changed and no backup directory or file made.
C5_Original ==
    (/\ pc = "crashed"
     /\ storyFile.status # "ok"
     /\ exitReason \in {"FileNotFoundError", "MalformedDocument"}) => DiskUntouched

\* C6 as stated: a run is stopped for a missing reference image only if the
\* role of that image is needed by one of its allowed pages.
C6_Original ==
    (pc = "exited" /\ exitReason = "no_ref") =>
        \E k \in 1..Len(pages_to_fix) : ~Exists(artifact, RefFor(pages_to_fix[k]))

StrictlyAscending(s) == \A i, j \in 1..Len(s) : i < j => s[i] < s[j]

\* C7 as stated: generation calls are made in ascending page-number order.
C7_Original == StrictlyAscending(PagesOf(log, {"call"}))

\* C7 amended: generation calls are made in the order of the requested
\* list (its catalog pages, one call per entry); that order is ascending
\* for --all and for the default subset.
C7_CallsInRequestOrder ==
    LET calls == PagesOf(log, {"call"})
        expected == SelectIn(requested, {1, 2, 3, 4, 6, 7, 8, 9, 10, 11})
    IN  /\ Len(calls) <= Len(expected)
        /\ calls = SubSeq(expected, 1, Len(calls))
        /\ pc = "done" => calls = expected
        /\ mode \in {"all", "default"} => StrictlyAscending(calls)

\* C7 witness: --pages 3,1 was processed as page 3, then page 1.
C7_Witness ==
    /\ mode = "pages"
    /\ PagesOf(log, {"call"}) = <<3, 1>>

\* C8 as stated: after the prompt update every page of the story document
\* outside the batch has the prompt it had before the run.
C8_Original ==
    (pc \in {"loop", "done"}) =>
        \A i \in 1..Len(storyFile.doc.pages) :
            storyFile.doc.pages[i].page_number \notin Range(pages_to_fix)
            => storyFile.doc.pages[i].illustration_prompt
                 = disk0.storyFile.doc.pages[i].illustration_prompt

\* C9: whenever a generation call for page p has been made, the story
\* document on disk records for p (if it has the page) the prompt that was
\* sent, which is the catalog prompt of p.
C9_PersistedPromptIsSentPrompt ==
    \A i \in Events({"call"}) :
        /\ log[i].prompt = <<"consistent", log[i].page>>
        /\ storyFile.status = "ok"
        /\ \A k \in 1..Len(storyFile.doc.pages) :
              storyFile.doc.pages[k].page_number = log[i].page
              => storyFile.doc.pages[k].illustration_prompt = log[i].prompt

\* C9 witness: a call was made for a page of the document whose prompt on
\* disk before the run was a different one.
C9_Witness ==
    \E i \in Events({"call"}) :
        \E k \in 1..Len(disk0.storyFile.doc.pages) :
            /\ disk0.storyFile.doc.pages[k].page_number = log[i].page
            /\ disk0.storyFile.doc.pages[k].illustration_prompt # log[i].prompt

\* ------------------------------------------------------------------------
\* backup_originals called twice on the same output directory
\* ------------------------------------------------------------------------

BackupAbsentCandidates ==
    {PageFile(1, "png"), PageFile(1, "jpg"), PageFile(3, "png"), PageFile(3, "jpg")}

InitBackup ==
    /\ \E absent \in SUBSET BackupAbsentCandidates : artifact = InitialArtifacts(absent)
    /\ \E b \in InitialBackups : backupDir = b.dir /\ backup = b.files
    /\ storyFile \in {f \in StoryFiles : f.status = "missing"}
    /\ token = "r8_token"
    /\ use_fast = FALSE
    /\ pc = "backup_first"
    /\ InitRun
    /\ disk0 = [artifact |-> artifact, backupDir |-> backupDir,
                backup |-> backup, storyFile |-> storyFile]
    /\ firstBackup = [taken |-> FALSE, dir |-> backupDir, files |-> backup]
    /\ runs = 1
    /\ priorCalls = 0
    /\ NoProcs
    /\ photo = NoPhoto
    /\ NoPipeline

\* the first backup_originals(pages)
FirstBackupCall ==
    /\ pc = "backup_first"
    /\ \E ps \in PageLists :
          LET r == BackupOriginals(ps, artifact, backupDir, backup, NoRef)
          IN  /\ pages_to_fix' = ps
              /\ backupDir' = r.dir
              /\ backup' = r.files
              /\ IF r.raised = "none"
                 THEN /\ pc' = "backup_second"
                      /\ exitReason' = exitReason
                      /\ firstBackup' = [taken |-> TRUE, dir |-> r.dir, files |-> r.files]
                 ELSE /\ pc' = "crashed"
                      /\ exitReason' = r.raised
                      /\ UNCHANGED firstBackup
    /\ UNCHANGED <<artifact, storyFile, envVars, mode, requested, idx, successes,
                   failures, log, disk0, sessionVars, pipelineVars, callVars, concVars>>

\* backup_originals(pages) again, nothing written in between
SecondBackupCall ==
    /\ pc = "backup_second"
    /\ LET r == BackupOriginals(pages_to_fix, artifact, backupDir, backup, NoRef)
       IN  /\ backupDir' = r.dir
           /\ backup' = r.files
           /\ IF r.raised = "none"
              THEN pc' = "backup_twice" /\ exitReason' = exitReason
              ELSE pc' = "crashed" /\ exitReason' = r.raised
    /\ UNCHANGED <<artifact, storyFile, envVars, runVars, log, disk0, firstBackup, sessionVars, pipelineVars, callVars, concVars>>

NextBackup ==
    \/ FirstBackupCall
    \/ SecondBackupCall

SpecBackup == InitBackup /\ [][NextBackup]_vars

\* C10: a second backup_originals(pages) right after the first, with no
\* artifact written in between, completes and leaves the backup directory
\* with the same files and the same contents as the first call left.
C10_BackupIdempotent ==
    (firstBackup.taken /\ pc # "backup_second") =>
        /\ pc = "backup_twice"
        /\ artifact = disk0.artifact
        /\ backupDir = firstBackup.dir
        /\ backup = firstBackup.files

\* C10 witness: both calls were made; the first one copied a file into the
\* backup directory, and a backup of an earlier session that differs from
\* the current illustration is still there.
C10_Witness ==
    /\ pc = "backup_twice"
    /\ \E name \in Names : ~Exists(disk0.backup, name) /\ Exists(backup, name)
    /\ \E name \in Names :
          Exists(backup, name) /\ Exists(artifact, name) /\ backup[name] # artifact[name]

\* ------------------------------------------------------------------------
\* Several runs of main(), one after the other, on the same directory
\* ------------------------------------------------------------------------

\* the --pages lists of the runs
RunLists == {<<3>>, <<1, 3>>, <<5, 3>>, <<12>>, <<3, 3>>}

InitRuns ==
    /\ \E absent \in SUBSET {PageFile(3, "jpg")} : artifact = InitialArtifacts(absent)
    /\ backupDir = FALSE
    /\ backup = NoFiles
    /\ storyFile = [status |-> "ok", doc |-> StoryOfLength(StoryLength)]
    /\ token = "r8_token"
    /\ use_fast = FALSE
    /\ pc = "start"
    /\ InitRun
    /\ disk0 = [artifact |-> artifact, backupDir |-> backupDir,
                backup |-> backup, storyFile |-> storyFile]
    /\ firstBackup = [taken |-> FALSE, dir |-> backupDir, files |-> backup]
    /\ runs = 1
    /\ priorCalls = 0
    /\ NoProcs
    /\ photo = NoPhoto
    /\ NoPipeline

SelectPagesRuns == SelectPagesFrom({"pages"}, RunLists)

\* the operator starts main() again after the previous run ended
Restart ==
    /\ pc \in {"exited", "crashed", "done"}
    /\ runs < MaxRuns
    /\ runs' = runs + 1
    /\ priorCalls' = priorCalls + CallsMade(log)
    /\ pc' = "start"
    /\ mode' = "unset"
    /\ requested' = <<>>
    /\ pages_to_fix' = <<>>
    /\ idx' = 0
    /\ successes' = <<>>
    /\ failures' = <<>>
    /\ exitReason' = "running"
    /\ log' = <<>>
    /\ disk0' = [artifact |-> artifact, backupDir |-> backupDir,
                 backup |-> backup, storyFile |-> storyFile]
    /\ UNCHANGED <<diskVars, envVars, firstBackup, pipelineVars, callVars, concVars>>

NextRuns ==
    \/ SelectPagesRuns
    \/ CheckEnvironment
    \/ BackupStep
    \/ UpdateStep
    \/ RegenerateStep
    \/ Summary
    \/ Restart

SpecRuns == InitRuns /\ [][NextRuns]_vars

\* C11: over any sequence of runs a backup file, once it exists, is never
\* removed and never changes, and the step that creates it copies the
\* illustration as it is at that moment; the directory is never removed.
C11_BackupWrittenOnce ==
    [][/\ backupDir => backupDir'
       /\ \A name \in Names :
             /\ Exists(backup, name) => backup'[name] = backup[name]
             /\ (~Exists(backup, name) /\ Exists(backup', name))
                => backup'[name] = artifact[name]]_vars

\* C11 witness: a second run has backed up a page whose illustration the
\* first run had replaced; the backup still is the one made by the first run.
C11_Witness ==
    /\ runs = 2
    /\ pc \in {"update", "loop", "done"}
    /\ \E k \in 1..Len(pages_to_fix) :
          LET name == PageFile(pages_to_fix[k], "png")
          IN  /\ disk0.artifact[name].ver > 0
              /\ Exists(backup, name)
              /\ backup[name].ver = 0

AfterBackupStep == pc \in {"update", "loop", "done"}

\* C12 as stated: after the backup step, every allowed page and format whose
\* file existed before this run has a backup equal to that file as it was
\* immediately before this run.
C12_Original ==
    AfterBackupStep =>
        \A k \in 1..Len(pages_to_fix), e \in 1..2 :
            LET name == PageFile(pages_to_fix[k], Exts[e])
            IN  Exists(disk0.artifact, name) => backup[name] = disk0.artifact[name]

\* C12 amended: after the backup step, every allowed page and format whose
\* file existed before this run has a backup: the one that was already in
\* the backup directory before this run if there was one, unchanged, and
\* otherwise a copy of the file as it was immediately before this run.
C12_BackupAfterStep ==
    AfterBackupStep =>
        \A k \in 1..Len(pages_to_fix), e \in 1..2 :
            LET name == PageFile(pages_to_fix[k], Exts[e])
            IN  Exists(disk0.artifact, name) =>
                    backup[name] = IF Exists(disk0.backup, name)
                                   THEN disk0.backup[name]
                                   ELSE disk0.artifact[name]

\* C12 witness: the second run's backup step kept the first run's backup of
\* one page, whose illustration had changed since, and copied another page
\* for the first time.
C12_Witness ==
    /\ runs = 2
    /\ pc = "update"
    /\ \E k \in 1..Len(pages_to_fix) :
          LET name == PageFile(pages_to_fix[k], "png")
          IN  Exists(disk0.backup, name) /\ disk0.backup[name] # disk0.artifact[name]
    /\ \E k \in 1..Len(pages_to_fix) :
          LET name == PageFile(pages_to_fix[k], "png")
          IN  ~Exists(disk0.backup, name) /\ Exists(backup, name)

\* C18: over any sequence of runs the reference images page_05.png and
\* page_12.png are never written or replaced.
C18_ReferencesNeverWritten ==
    [][/\ artifact'[<<0, 5, "png">>] = artifact[<<0, 5, "png">>]
       /\ artifact'[<<1, 2, "png">>] = artifact[<<1, 2, "png">>]]_vars

\* C18 witness: in a second run page 5 was requested next to page 3, page 3
\* was generated, and both reference images are the original ones.
C18_Witness ==
    /\ runs = 2
    /\ pc = "done"
    /\ 5 \in Range(requested)
    /\ Events({"ok"}) # {}
    /\ artifact[<<0, 5, "png">>] = Original(5, "png")
    /\ artifact[<<1, 2, "png">>] = Original(12, "png")

\* ------------------------------------------------------------------------
\* Properties of one run: errors, pacing, references, the story document
\* ------------------------------------------------------------------------

\* C13 as stated: an I/O error while a backup is written is recorded as a
\* failure of the page concerned and does not end the run.
C13_Original ==
    \A i \in Events({"backup_error"}) :
        pc # "crashed" /\ log[i].page \in Range(failures)

\* C14: between any two generation calls of a run there is a pacing sleep,
\* whether the earlier call succeeded or failed.
C14_SleepBetweenCalls ==
    \A i \in Events({"call"}), j \in Events({"call"}) :
        i < j => \E k \in (i + 1)..(j - 1) : log[k].ev = "sleep" /\ log[k].info = "2s"

\* C14 witness: two calls were made, the first of them failed, and a sleep
\* lies between them.
C14_Witness ==
    \E i \in Events({"call"}), j \in Events({"call"}) :
        /\ i < j
        /\ log[i + 1].ev = "fail"
        /\ \E k \in (i + 1)..(j - 1) : log[k].ev = "sleep"

\* C15 as stated: a page whose generation attempt failed is not called again
\* in the same run, and the run makes no more provider calls than the
\* allowed page list has entries.
C15_Original ==
    /\ CallsMade(log) <= Len(pages_to_fix)
    /\ \A i \in Events({"fail"}), j \in Events({"call"}) :
          i < j => log[j].page # log[i].page

\* C17: a step in which the provider call or the download fails changes no
\* illustration file and appends the page to the failures; a step changes an
\* illustration file only of the page whose generation and download
\* succeeded in that step.
C17_FailedCallWritesNothing ==
    [][/\ \A i \in (Len(log) + 1)..Len(log') :
             (log'[i].ev = "fail" /\ log'[i].info \in {"provider_error", "download_error"})
             => /\ artifact' = artifact
                /\ failures' = Append(failures, log'[i].page)
                /\ successes' = successes
       /\ \A name \in Names :
             artifact'[name] # artifact[name]
             => \E i \in (Len(log) + 1)..Len(log') :
                   /\ log'[i].page = name[1] * 10 + name[2]
                   /\ log'[i].ev \in {"ok", "fail"}
                   /\ log'[i].info \in {"ok", "jpg_error"}]_vars

\* C17 witness: the run reached its summary, the download of a page failed,
\* the page is among the failures and both its files are as they were.
C17_Witness ==
    /\ pc = "done"
    /\ \E i \in Events({"fail"}) :
          /\ log[i].info = "download_error"
          /\ log[i].page \in Range(failures)
          /\ log[i].page \notin Range(successes)
          /\ \A e \in 1..2 :
                artifact[PageFile(log[i].page, Exts[e])]
                    = disk0.artifact[PageFile(log[i].page, Exts[e])]

\* C19: every generation uses page_12.png as reference when the page is 1 or
\* 2 and page_05.png otherwise; the choice depends on the page number alone.
C19_ReferenceByPage ==
    \A i \in 1..Len(log) :
        log[i].ref # NoRef =>
            log[i].ref = IF log[i].page \in {1, 2} THEN <<1, 2, "png">> ELSE <<0, 5, "png">>

\* C19 witness: one run called the provider for a home page and for an
\* outdoor page.
C19_Witness ==
    /\ \E i \in Events({"call"}) : log[i].page = 1 /\ log[i].ref = <<1, 2, "png">>
    /\ \E i \in Events({"call"}) : log[i].page = 3 /\ log[i].ref = <<0, 5, "png">>

\* C20: after update_story_json the story document differs from the one on
\* disk before the run at most in the illustration_prompt of its pages:
\* title, theme, the number and order of the pages, their numbers and their
\* text are the same; a catalog page the story lacks raises nothing and is
\* not added.
C20_OnlyPromptsChange ==
    /\ (pc \in {"loop", "done"}) =>
          /\ storyFile.status = disk0.storyFile.status
          /\ storyFile.doc.title = disk0.storyFile.doc.title
          /\ storyFile.doc.theme = disk0.storyFile.doc.theme
          /\ Len(storyFile.doc.pages) = Len(disk0.storyFile.doc.pages)
          /\ \A i \in 1..Len(storyFile.doc.pages) :
                [storyFile.doc.pages[i] EXCEPT !.illustration_prompt = <<>>]
                    = [disk0.storyFile.doc.pages[i] EXCEPT !.illustration_prompt = <<>>]
    /\ (pc = "crashed" /\ disk0.storyFile.status = "ok") => exitReason = "OSError"

\* C20 witness: the story on disk has two pages, the catalog has more; the
\* update has run and changed a prompt.
C20_Witness ==
    /\ pc = "loop"
    /\ Len(disk0.storyFile.doc.pages) = 2
    /\ \E i \in 1..Len(storyFile.doc.pages) :
          storyFile.doc.pages[i].illustration_prompt
              # disk0.storyFile.doc.pages[i].illustration_prompt

\* ------------------------------------------------------------------------
\* Termination of one run
\* ------------------------------------------------------------------------

\* the credential is set, the reference images are there
InitLive ==
    /\ \E absent \in SUBSET {PageFile(3, "png"), PageFile(3, "jpg")} :
          artifact = InitialArtifacts(absent)
    /\ backupDir = FALSE
    /\ backup = NoFiles
    /\ \E n \in DocLens : storyFile = [status |-> "ok", doc |-> StoryOfLength(n)]
    /\ token = "r8_token"
    /\ use_fast \in BOOLEAN
    /\ pc = "start"
    /\ InitRun
    /\ disk0 = [artifact |-> artifact, backupDir |-> backupDir,
                backup |-> backup, storyFile |-> storyFile]
    /\ firstBackup = [taken |-> FALSE, dir |-> backupDir, files |-> backup]
    /\ runs = 1
    /\ priorCalls = 0
    /\ NoProcs
    /\ photo = NoPhoto
    /\ NoPipeline

\* main() is one sequential thread, and every provider call and download
\* returns or raises: a step that can be taken is taken
SpecLive ==
    /\ InitLive
    /\ [][Next]_vars
    /\ WF_vars(UpdateStep)
    /\ WF_vars(RegenerateStep)
    /\ WF_vars(Summary)

C21_Original ==
    pc = "done" =>
        \A k \in 1..Len(pages_to_fix) :
            LET p == pages_to_fix[k]
                png == PageFile(p, "png")
                jpg == PageFile(p, "jpg")
            IN  \/ /\ p \in Range(successes)
                   /\ artifact[png].ver > priorCalls
                   /\ artifact[jpg] = DeriveJpg(artifact[png])
                \/ /\ p \in Range(failures)
                   /\ artifact[png] = disk0.artifact[png]
                   /\ artifact[jpg] = disk0.artifact[jpg]

\* ------------------------------------------------------------------------
\* regenerate_pages.py: main() over the four corrected pages
\* ------------------------------------------------------------------------

\* pages_to_fix = [1, 2, 6, 8]
PagesToFix == <<1, 2, 6, 8>>

\* one corrected prompt per page of CORRECTED_PROMPTS
CORRECTED_PROMPTS == [p \in {1, 2, 6, 8} |-> <<"corrected", p>>]

\* "--photo" not in sys.argv / the path does not exist / the photo is there
Photos == {"no_arg", "missing", "present"}

\* the three checks of main(), in their order
PagesEnvCheck(ph, tok) ==
    CASE ph = "no_arg" -> "usage"
      [] ph = "missing" -> "no_photo"
      [] tok = "" -> "no_token"
      [] OTHER -> "ok"

\* update_story_json of regenerate_pages.py: the corrected prompt for every
\* page of the story that has one
PagesUpdateStoryJson(story, pages_regenerated) ==
    [story EXCEPT !.pages =
        [i \in 1..Len(story.pages) |->
            IF story.pages[i].page_number \in DOMAIN CORRECTED_PROMPTS
            THEN [story.pages[i] EXCEPT
                    !.illustration_prompt = CORRECTED_PROMPTS[story.pages[i].page_number]]
            ELSE story.pages[i]]]

PagesSleep == Event("sleep", 0, NoPrompt, NoRef, "1s")

\* the except branch ends in "continue": time.sleep(1) is reached only when
\* regenerate_page returned
PagesPacing(failed) == IF failed THEN <<>> ELSE <<PagesSleep>>

\* "DONE! Regenerated pages: " + ", ".join(str(p) for p in pages_to_fix)
PagesListed(ps) ==
    [i \in 1..Len(ps) |-> Event("listed", ps[i], NoPrompt, NoRef, "regenerated")]

InitPages ==
    /\ artifact = InitialArtifacts({})
    /\ backupDir = FALSE
    /\ backup = NoFiles
    /\ storyFile \in StoryFiles
    /\ token \in Tokens
    /\ use_fast \in BOOLEAN
    /\ photo \in Photos
    /\ NoPipeline
    /\ pc = "pages_start"
    /\ InitRun
    /\ disk0 = [artifact |-> artifact, backupDir |-> backupDir,
                backup |-> backup, storyFile |-> storyFile]
    /\ firstBackup = [taken |-> FALSE, dir |-> backupDir, files |-> backup]
    /\ runs = 1
    /\ priorCalls = 0
    /\ NoProcs

\* the argument, photo and credential checks, then pages_to_fix = [1, 2, 6, 8]
PagesCheck ==
    /\ pc = "pages_start"
    /\ LET r == PagesEnvCheck(photo, token)
       IN  IF r = "ok"
           THEN /\ pc' = "pages_update"
                /\ pages_to_fix' = PagesToFix
                /\ exitReason' = exitReason
           ELSE /\ pc' = "exited"
                /\ pages_to_fix' = pages_to_fix
                /\ exitReason' = r
    /\ UNCHANGED <<diskVars, envVars, mode, requested, idx, successes, failures,
                   log, disk0, firstBackup, sessionVars, pipelineVars, callVars, concVars>>

\* update_story_json(pages_to_fix), outside any try
PagesUpdate ==
    /\ pc = "pages_update"
    /\ IF storyFile.status = "ok"
       THEN /\ storyFile' = [storyFile EXCEPT
                                !.doc = PagesUpdateStoryJson(storyFile.doc, pages_to_fix)]
            /\ pc' = "pages_loop"
            /\ idx' = 1
            /\ exitReason' = exitReason
       ELSE /\ UNCHANGED <<storyFile, idx>>
            /\ pc' = "crashed"
            /\ exitReason' = IF storyFile.status = "missing"
                             THEN "FileNotFoundError" ELSE "MalformedDocument"
    /\ UNCHANGED <<artifact, backupDir, backup, envVars, mode, requested,
                   pages_to_fix, successes, failures, log, disk0, firstBackup, sessionVars, pipelineVars, callVars, concVars>>

\* one iteration of "for page_num in pages_to_fix"
PagesRegenerate ==
    /\ pc = "pages_loop"
    /\ idx <= Len(pages_to_fix)
    /\ LET page_num == pages_to_fix[idx] IN
       \E outcome \in Outcomes :
          /\ outcome # "ok" => InjectedFailures(log) < MaxFail
          /\ artifact' = WriteArtifacts(artifact, page_num, CallsMade(log) + 1, outcome)
          /\ log' = log \o
                <<Event("call", page_num, CORRECTED_PROMPTS[page_num], NoRef,
                        ModelFor(use_fast)),
                  Event(IF outcome = "ok" THEN "ok" ELSE "fail", page_num,
                        NoPrompt, NoRef, outcome)>>
                \o PagesPacing(outcome # "ok")
          /\ idx' = NextIndex(idx, outcome # "ok", Len(pages_to_fix))
    /\ UNCHANGED <<backupDir, backup, storyFile, envVars, mode, requested,
                   pages_to_fix, successes, failures, pc, exitReason, disk0,
                   firstBackup, sessionVars, pipelineVars, callVars, concVars>>

\* the closing report
PagesSummary ==
    /\ pc = "pages_loop"
    /\ idx > Len(pages_to_fix)
    /\ log' = log \o PagesListed(pages_to_fix)
    /\ pc' = "pages_done"
    /\ exitReason' = "summary"
    /\ UNCHANGED <<diskVars, envVars, runVars, disk0, firstBackup, sessionVars, pipelineVars, callVars, concVars>>

NextPages ==
    \/ PagesCheck
    \/ PagesUpdate
    \/ PagesRegenerate
    \/ PagesSummary

SpecPages == InitPages /\ [][NextPages]_vars

\* C22 as stated: every page the closing report of regenerate_pages.py lists
\* as regenerated was regenerated successfully in this run; a page whose
\* regeneration raised is not listed.
C22_Original ==
    \A i \in Events({"listed"}) :
        /\ \E j \in Events({"ok"}) : log[j].page = log[i].page
        /\ ~\E j \in Events({"fail"}) : log[j].page = log[i].page

\* C23 as stated: between any two generation calls of regenerate_pages.py
\* there is the 1-second sleep, also when the earlier call failed.
C23_Original ==
    \A i \in Events({"call"}), j \in Events({"call"}) :
        i < j => \E k \in (i + 1)..(j - 1) : log[k].ev = "sleep" /\ log[k].info = "1s"

\* ------------------------------------------------------------------------
\* adventures_pipeline.py: generate_all_illustrations
\* ------------------------------------------------------------------------

\* illustration_path: Optional[str] = None
None == [dir |-> "none", name |-> NoRef]

\* os.path.join(output_dir, f"page_{page.page_number:02d}.png")
OutputPath(page_number) == [dir |-> "output_dir", name |-> PageFile(page_number, "png")]

\* a path an earlier call with another output_dir left in the page
EarlierPath(page_number) == [dir |-> "earlier_dir", name |-> PageFile(page_number, "png")]

\* page numbers of the storybooks handed in
BookNumbers == {<<1, 2, 3>>, <<1, 2, StoryLength + 1>>}

Storybooks ==
    {[i \in 1..Len(nums) |->
        [page_number |-> nums[i],
         illustration_prompt |-> OriginalPrompt(nums[i]),
         illustration_path |-> IF nums[i] \in had THEN EarlierPath(nums[i]) ELSE None]] :
     nums \in BookNumbers, had \in SUBSET {1, 2, 3, StoryLength + 1}}

\* pages_to_illustrate: None, or a list of at most MaxLen page numbers
IllustrateArgs ==
    {[given |-> FALSE, pages |-> <<>>]}
    \cup {[given |-> TRUE, pages |-> l] :
            l \in UNION {[1..n -> {1, 2, 3, StoryLength + 1}] : n \in 0..MaxLen}}

\* if pages_to_illustrate is None: pages_to_illustrate = list(range(1, 13))
EffectivePages(arg) ==
    IF arg.given THEN arg.pages ELSE [i \in 1..StoryLength |-> i]

\* how one generate_illustration call may end: replicate.run raises, the
\* download raises, makedirs/open raises, or the file is written
IllustrationOutcomes == {"ok", "provider_error", "download_error", "png_write_error"}

\* the except branch that leaves the page's path as it was
IllustrationPathKept(page, outcome) ==
    IF outcome = "ok" THEN OutputPath(page.page_number) ELSE page.illustration_path

\* the try assigns the returned output_path, the except assigns None
IllustrationPath(page, outcome) ==
    IF outcome = "ok" THEN OutputPath(page.page_number) ELSE None

\* generate_illustration writes output_path and nothing else
WriteIllustration(files, page_number, n, outcome) ==
    IF outcome = "ok"
    THEN [files EXCEPT ![PageFile(page_number, "png")] = Generated(page_number, n)]
    ELSE files

InitIllustrate ==
    /\ artifact = NoFiles
    /\ backupDir = FALSE
    /\ backup = NoFiles
    /\ storyFile = [status |-> "missing", doc |-> EmptyStory]
    /\ token = "r8_token"
    /\ use_fast \in BOOLEAN
    /\ photo = "present"
    /\ storybook \in Storybooks
    /\ storybook0 = storybook
    /\ pages_to_illustrate \in IllustrateArgs
    /\ NoCall
    /\ pc = "illustrate_start"
    /\ InitRun
    /\ disk0 = [artifact |-> artifact, backupDir |-> backupDir,
                backup |-> backup, storyFile |-> storyFile]
    /\ firstBackup = [taken |-> FALSE, dir |-> backupDir, files |-> backup]
    /\ runs = 1
    /\ priorCalls = 0
    /\ NoProcs

\* os.makedirs(output_dir, exist_ok=True) and the default page list
IllustrateStart ==
    /\ pc = "illustrate_start"
    /\ pages_to_fix' = EffectivePages(pages_to_illustrate)
    /\ idx' = 1
    /\ pc' = "illustrate_loop"
    /\ UNCHANGED <<diskVars, envVars, mode, requested, successes, failures,
                   exitReason, log, disk0, firstBackup, sessionVars, pipelineVars, callVars, concVars>>

\* one iteration of "for page in storybook.pages"
IllustratePage ==
    /\ pc = "illustrate_loop"
    /\ idx <= Len(storybook)
    /\ LET page == storybook[idx] IN
       IF page.page_number \notin Range(pages_to_fix)
       THEN \* continue
            UNCHANGED <<artifact, storybook, log>>
       ELSE \E outcome \in IllustrationOutcomes :
               /\ artifact' = WriteIllustration(artifact, page.page_number,
                                                CallsMade(log) + 1, outcome)
               /\ storybook' = [storybook EXCEPT
                                   ![idx].illustration_path = IllustrationPath(page, outcome)]
               /\ log' = log \o
                     <<Event("call", page.page_number, page.illustration_prompt, NoRef,
                             ModelFor(use_fast)),
                       Event(IF outcome = "ok" THEN "ok" ELSE "fail", page.page_number,
                             NoPrompt, NoRef, outcome),
                       PagesSleep>>
    /\ idx' = idx + 1
    /\ UNCHANGED <<backupDir, backup, storyFile, envVars, mode, requested, pages_to_fix,
                   successes, failures, pc, exitReason, disk0, firstBackup, sessionVars,
                   storybook0, pages_to_illustrate, callVars, concVars>>

\* return storybook
IllustrateReturn ==
    /\ pc = "illustrate_loop"
    /\ idx > Len(storybook)
    /\ pc' = "illustrate_done"
    /\ exitReason' = "returned"
    /\ UNCHANGED <<diskVars, envVars, runVars, log, disk0, firstBackup, sessionVars,
                   pipelineVars, callVars, concVars>>

NextIllustrate ==
    \/ IllustrateStart
    \/ IllustratePage
    \/ IllustrateReturn

SpecIllustrate == InitIllustrate /\ [][NextIllustrate]_vars

\* the pages generate_all_illustrations was asked for: the given list, or
\* pages 1 to 12 when none was given
AskedPages ==
    IF pages_to_illustrate.given THEN Range(pages_to_illustrate.pages) ELSE 1..12

\* C24: when generate_all_illustrations has returned, a page of the
\* storybook that was asked for has the path output_dir/page_NN.png exactly
\* if its generation succeeded and None exactly if it failed, and every
\* asked page was called whatever happened to the pages before it; a page
\* that was not asked for has the path it had and was never called.
C24_PathsAfterReturn ==
    pc = "illustrate_done" =>
        \A i \in 1..Len(storybook) :
            LET n == storybook[i].page_number
                path == storybook[i].illustration_path
                made == [dir |-> "output_dir", name |-> <<n \div 10, n % 10, "png">>]
                none == [dir |-> "none", name |-> <<0, 0, "none">>]
                called == \E j \in Events({"call"}) : log[j].page = n
                ok == \E j \in Events({"ok"}) : log[j].page = n
                failed == \E j \in Events({"fail"}) : log[j].page = n
            IN  IF n \in AskedPages
                THEN /\ called
                     /\ ok # failed
                     /\ (path = made) <=> ok
                     /\ (path = none) <=> failed
                ELSE /\ path = storybook0[i].illustration_path
                     /\ ~called

\* C24 witness: the call returned; an asked page that had a path failed and
\* has None, a later asked page succeeded, and a page that was not asked for
\* still has the path it had.
C24_Witness ==
    /\ pc = "illustrate_done"
    /\ \E i \in 1..Len(storybook), k \in 1..Len(storybook) :
          /\ i < k
          /\ storybook0[i].illustration_path # None
          /\ storybook[i].illustration_path = None
          /\ storybook[k].illustration_path = OutputPath(storybook[k].page_number)
    /\ \E i \in 1..Len(storybook) :
          /\ storybook[i].page_number \notin AskedPages
          /\ storybook[i].illustration_path = EarlierPath(storybook[i].page_number)

\* ------------------------------------------------------------------------
\* The provider's result and the address taken from it
\* (regenerate_page lines 237-246, generate_illustration lines 186-196)
\* ------------------------------------------------------------------------

Urls == {"https://a", "https://b", "https://c"}

\* a result that is the address itself
StrResult(u) == [shape |-> "str", url |-> "", str |-> u, items |-> <<>>]

\* a replicate FileOutput: it has the attribute url, and str() of it is
\* that url
FileOutput(u) == [shape |-> "object", url |-> u, str |-> u, items |-> <<>>]

\* a list of results; str() of a list is its repr
ListResult(l) == [shape |-> "list", url |-> "", str |-> "[...]", items |-> l]

\* anything else replicate.run may hand back (an iterator)
OtherResult == [shape |-> "other", url |-> "", str |-> "<iterator>", items |-> <<>>]

Elements == {StrResult(u) : u \in Urls} \cup {FileOutput(u) : u \in Urls}

ProviderResults ==
    Elements
    \cup {ListResult(l) : l \in UNION {[1..n -> Elements] : n \in 0..MaxLen}}
    \cup {OtherResult}

\* str(x)
Str(x) == x.str

\* the list branch taking output[-1]
ExtractUrlLast(o) ==
    IF o.shape = "object" THEN [raised |-> "none", url |-> o.url]
    ELSE IF o.shape = "str" THEN [raised |-> "none", url |-> o.str]
    ELSE IF o.shape = "list"
         THEN IF o.items = <<>>
              THEN [raised |-> "IndexError", url |-> ""]
              ELSE [raised |-> "none", url |-> Str(o.items[Len(o.items)])]
         ELSE [raised |-> "none", url |-> Str(o)]

\* if hasattr(output, "url") ... elif isinstance(output, str) ... else
\* str(output[0]) if isinstance(output, list) else str(output)
ExtractUrl(o) ==
    IF o.shape = "object" THEN [raised |-> "none", url |-> o.url]
    ELSE IF o.shape = "str" THEN [raised |-> "none", url |-> o.str]
    ELSE IF o.shape = "list"
         THEN IF o.items = <<>>
              THEN [raised |-> "IndexError", url |-> ""]
              ELSE [raised |-> "none", url |-> Str(o.items[1])]
         ELSE [raised |-> "none", url |-> Str(o)]

InitNormalize ==
    /\ artifact = NoFiles
    /\ backupDir = FALSE
    /\ backup = NoFiles
    /\ storyFile = [status |-> "missing", doc |-> EmptyStory]
    /\ token = "r8_token"
    /\ use_fast = FALSE
    /\ photo = NoPhoto
    /\ storybook = <<>>
    /\ storybook0 = <<>>
    /\ pages_to_illustrate = [given |-> FALSE, pages |-> <<>>]
    /\ output \in ProviderResults
    /\ image_url = ""
    /\ pc = "call_returned"
    /\ InitRun
    /\ disk0 = [artifact |-> artifact, backupDir |-> backupDir,
                backup |-> backup, storyFile |-> storyFile]
    /\ firstBackup = [taken |-> FALSE, dir |-> backupDir, files |-> backup]
    /\ runs = 1
    /\ priorCalls = 0
    /\ NoProcs

\* the address is taken from the result; an IndexError leaves the function
\* and is the page's failure
TakeUrl ==
    /\ pc = "call_returned"
    /\ LET r == ExtractUrl(output)
       IN  IF r.raised = "none"
           THEN /\ image_url' = r.url
                /\ pc' = "url_ready"
                /\ log' = log
           ELSE /\ image_url' = image_url
                /\ pc' = "page_failed"
                /\ log' = Append(log, Event("fail", 1, NoPrompt, NoRef, r.raised))
    /\ UNCHANGED <<diskVars, envVars, runVars, exitReason, disk0, firstBackup,
                   sessionVars, pipelineVars, output, concVars>>

\* requests.get(image_url); response.raise_for_status()
Download ==
    /\ pc = "url_ready"
    /\ \E status \in {"200", "404"} :
          /\ log' = log \o <<Event("download", 1, NoPrompt, NoRef, image_url)>>
                        \o (IF status = "200" THEN <<>>
                            ELSE <<Event("fail", 1, NoPrompt, NoRef, "download_error")>>)
          /\ pc' = IF status = "200" THEN "downloaded" ELSE "page_failed"
    /\ UNCHANGED <<diskVars, envVars, runVars, exitReason, disk0, firstBackup,
                   sessionVars, pipelineVars, callVars, concVars>>

NextNormalize ==
    \/ TakeUrl
    \/ Download

SpecNormalize == InitNormalize /\ [][NextNormalize]_vars

\* C25: the address that is fetched is the result itself when the result is
\* a string, its url when it is an object with a url, and the address of
\* its first element when it is a non-empty list; an empty list is a failure
\* of the page and nothing is fetched.
C25_ResultNormalized ==
    /\ \A i \in Events({"download"}) :
          /\ log[i].info = image_url
          /\ output.shape = "str" => log[i].info = output.str
          /\ output.shape = "object" => log[i].info = output.url
          /\ output.shape = "list" =>
                /\ output.items # <<>>
                /\ log[i].info = IF output.items[1].shape = "object"
                                 THEN output.items[1].url
                                 ELSE output.items[1].str
    /\ (pc # "call_returned" /\ output.shape \in {"str", "object"}) => pc # "page_failed" \/ Events({"download"}) # {}
    /\ (pc # "call_returned" /\ output.shape = "list" /\ output.items = <<>>) =>
          /\ pc = "page_failed"
          /\ Events({"fail"}) # {}
          /\ Events({"download"}) = {}

\* C25 witness: the result was a list of two different addresses, the first
\* a wrapped object, and the first one was fetched.
C25_Witness ==
    /\ pc = "downloaded"
    /\ output.shape = "list"
    /\ Len(output.items) = 2
    /\ output.items[1].shape = "object"
    /\ output.items[1].url # output.items[2].str
    /\ \E i \in Events({"download"}) : log[i].info = output.items[1].url

\* ------------------------------------------------------------------------
\* Two runs of main() at the same time on the same output directory
\* ------------------------------------------------------------------------

Runs == {"A", "B"}

\* both runs are started with --pages 3
ConcurrentPage == 3

\* a run that has not started: pc, the ext the backup loop is at, and the
\* downloaded image the run holds
IdleRun == [pc |-> "idle", ext |-> 1, img |-> 0]

Active(r) == r.pc \notin {"idle", "finished"}

\* the copy made whenever the source exists
ShouldCopyAlways(files, bk, name) == Exists(files, name)

\* "if src.exists(): ... if not dst.exists():" of backup_originals
ShouldCopy(files, bk, name) == Exists(files, name) /\ ~Exists(bk, name)

\* where the backup loop goes after one ext of the page
AfterExt(r) ==
    IF r.ext < Len(Exts)
    THEN [r EXCEPT !.pc = "check", !.ext = r.ext + 1]
    ELSE [r EXCEPT !.pc = "update"]

\* run p moves on to the state r
Advance(p, r) ==
    /\ procs' = [procs EXCEPT ![p] = r]
    /\ overlapped' = (overlapped \/ \A q \in Runs : Active(procs'[q]))

InitConcurrent ==
    /\ \E absent \in SUBSET {PageFile(ConcurrentPage, "png"), PageFile(ConcurrentPage, "jpg")} :
          artifact = InitialArtifacts(absent)
    /\ backupDir = FALSE
    /\ backup = NoFiles
    /\ storyFile = [status |-> "ok", doc |-> StoryOfLength(StoryLength)]
    /\ token = "r8_token"
    /\ use_fast = FALSE
    /\ photo = NoPhoto
    /\ NoPipeline
    /\ pc = "concurrent"
    /\ InitRun
    /\ disk0 = [artifact |-> artifact, backupDir |-> backupDir,
                backup |-> backup, storyFile |-> storyFile]
    /\ firstBackup = [taken |-> FALSE, dir |-> backupDir, files |-> backup]
    /\ runs = 1
    /\ priorCalls = 0
    /\ procs = [p \in Runs |-> IdleRun]
    /\ overlapped = FALSE

\* the checks of main() pass; backup_dir.mkdir(exist_ok=True)
RunStart(p) ==
    /\ procs[p].pc = "idle"
    /\ EnvCheck(token, artifact) = "ok"
    /\ Mkdir(backupDir) = "ok"
    /\ backupDir' = TRUE
    /\ Advance(p, [procs[p] EXCEPT !.pc = "check"])
    /\ UNCHANGED <<artifact, backup, storyFile, envVars, runVars, pc, exitReason, log,
                   disk0, firstBackup, sessionVars, pipelineVars, callVars>>

\* src.exists() and not dst.exists()
RunCheck(p) ==
    /\ procs[p].pc = "check"
    /\ Advance(p, IF ShouldCopy(artifact, backup,
                                PageFile(ConcurrentPage, Exts[procs[p].ext]))
                  THEN [procs[p] EXCEPT !.pc = "copy"]
                  ELSE AfterExt(procs[p]))
    /\ UNCHANGED <<diskVars, envVars, runVars, pc, exitReason, log, disk0, firstBackup,
                   sessionVars, pipelineVars, callVars>>

\* shutil.copy2(src, dst): the file as it is now, over whatever dst is now
RunCopy(p) ==
    /\ procs[p].pc = "copy"
    /\ LET name == PageFile(ConcurrentPage, Exts[procs[p].ext])
       IN  backup' = [backup EXCEPT ![name] = artifact[name]]
    /\ Advance(p, AfterExt(procs[p]))
    /\ UNCHANGED <<artifact, backupDir, storyFile, envVars, runVars, pc, exitReason, log,
                   disk0, firstBackup, sessionVars, pipelineVars, callVars>>

\* update_story_json(pages_to_fix)
RunUpdate(p) ==
    /\ procs[p].pc = "update"
    /\ storyFile' = [storyFile EXCEPT
                        !.doc = UpdateStoryJson(storyFile.doc, <<ConcurrentPage>>)]
    /\ Advance(p, [procs[p] EXCEPT !.pc = "generate"])
    /\ UNCHANGED <<artifact, backupDir, backup, envVars, runVars, pc, exitReason, log,
                   disk0, firstBackup, sessionVars, pipelineVars, callVars>>

\* replicate.run and requests.get: the run holds the downloaded image
RunGenerate(p) ==
    /\ procs[p].pc = "generate"
    /\ priorCalls' = priorCalls + 1
    /\ log' = Append(log, Event("call", ConcurrentPage, PROMPTS[ConcurrentPage],
                                RefFor(ConcurrentPage), ModelFor(use_fast)))
    /\ Advance(p, [procs[p] EXCEPT !.pc = "write_png", !.img = priorCalls + 1])
    /\ UNCHANGED <<diskVars, envVars, runVars, pc, exitReason, disk0, firstBackup,
                   runs, pipelineVars, callVars>>

\* open(png_path, "wb").write(response.content)
RunWritePng(p) ==
    /\ procs[p].pc = "write_png"
    /\ artifact' = [artifact EXCEPT ![PageFile(ConcurrentPage, "png")] =
                        Generated(ConcurrentPage, procs[p].img)]
    /\ Advance(p, [procs[p] EXCEPT !.pc = "derive_jpg"])
    /\ UNCHANGED <<backupDir, backup, storyFile, envVars, runVars, pc, exitReason, log,
                   disk0, firstBackup, sessionVars, pipelineVars, callVars>>

\* Image.open(png_path) ... img.save(jpg_path): the PNG that is on disk now
RunDeriveJpg(p) ==
    /\ procs[p].pc = "derive_jpg"
    /\ artifact' = [artifact EXCEPT ![PageFile(ConcurrentPage, "jpg")] =
                        DeriveJpg(artifact[PageFile(ConcurrentPage, "png")])]
    /\ Advance(p, [procs[p] EXCEPT !.pc = "finished"])
    /\ UNCHANGED <<backupDir, backup, storyFile, envVars, runVars, pc, exitReason, log,
                   disk0, firstBackup, sessionVars, pipelineVars, callVars>>

NextConcurrent ==
    \/ \E p \in Runs : RunStart(p)
    \/ \E p \in Runs : RunCheck(p)
    \/ \E p \in Runs : RunCopy(p)
    \/ \E p \in Runs : RunUpdate(p)
    \/ \E p \in Runs : RunGenerate(p)
    \/ \E p \in Runs : RunWritePng(p)
    \/ \E p \in Runs : RunDeriveJpg(p)

SpecConcurrent == InitConcurrent /\ [][NextConcurrent]_vars

\* the backup of a file that was there before the runs is a generated image
\* and not that file
BackupHoldsGenerated ==
    \E name \in Names : Exists(disk0.artifact, name) /\ backup[name].ver > 0

\* the page's PNG and JPG come from two different generated images
PngJpgDiffer ==
    LET png == artifact[<<0, 3, "png">>]
        jpg == artifact[<<0, 3, "jpg">>]
    IN  png.ver > 0 /\ jpg.ver > 0 /\ png.ver # jpg.ver

\* C26: two runs on the same directory are unsafe only through their
\* interleaving: the backup of an original file holds a generated image
\* instead only when the two runs were under way at the same time, and the page's PNG and JPG come from
\* different generated images only while a run stands between its PNG write
\* and its JPG derivation; both states are reached (C26_Witness).
C26_UnsafeWhenInterleaved ==
    /\ BackupHoldsGenerated => overlapped
    /\ PngJpgDiffer => \E p \in {"A", "B"} : procs[p].pc = "derive_jpg"

\* C26 witness: the two runs interleaved; the backup of page_03.png is an
\* image generated by one of them, and page_03.png and page_03.jpg come from
\* different generated images.
C26_Witness ==
    /\ overlapped
    /\ disk0.artifact[<<0, 3, "png">>] = Original(3, "png")
    /\ backup[<<0, 3, "png">>].ver > 0
    /\ PngJpgDiffer

====
